---- MODULE Spec2Model ----
(***************************************************************************)
(* Model of the multi-tenant news pipeline of telenewsbotAI:               *)
(* the per-chat fetch run (internal/bot/news.go), the moderation callbacks *)
(* (internal/bot/handlers_callback.go, handleStatefulMessage) and the      *)
(* storage tables they use (internal/storage/storage.go).                  *)
(*                                                                         *)
(* Pipeline-owned data (isFetching, cancelFunc, posted_articles,           *)
(* pending_articles, last_fetched_at) is state.  Data owned by the         *)
(* settings/admin handlers (chat config, sources) and the answers of the   *)
(* network collaborators (feeds, scraper, summarizer, Telegram) are        *)
(* inputs, drawn with \E at the step that reads them.                      *)
(*                                                                         *)
(* Loading a chat's configuration or source list, and every network call,  *)
(* may fail.  The statements on posted_articles and pending_articles and   *)
(* the UPDATE of last_fetched_at are taken to execute as written: the run  *)
(* ignores or only logs their errors.                                      *)
(***************************************************************************)
EXTENDS Integers, Sequences, FiniteSets, Bags, TLC

\* ---------------------------------------------------------------- bounds
NumTenants == 2
MaxRuns == 2
MaxSources == 2
MaxPostLimit == 2
MaxInterval == 1
MaxPendingId == 2
MaxHandlers == 2
NumUsers == 1
MaxItems == 3
MaxAgeHours == 2
NowHour == 3
MaxGetters == 2
MaxInstances == 4

Tenants == 1..NumTenants
Runs == 1..MaxRuns
Users == 1..NumUsers
Getters == 1..MaxGetters
\* minutes since a chat's last_fetched_at, counted up to "later than every
\* due time"; a chat never fetched (NULL, time.Time{}) starts there
MaxElapsed == MaxInterval + 1

\* ---------------------------------------------------------------- values
NoLink == ""
Links == {"a", "b"}
StubLinks == Links \cup {NoLink}
NoRun == 0
\* a source whose fetch or parse failed
Fail == [err |-> TRUE, items |-> <<>>]
None == "-"
AISummary == "ai"
\* the texts a moderator sends as an edited summary
EditTexts == {"ed"}
\* no call is looked at on its own
NoCall == [fn |-> "none", done |-> TRUE]

VARIABLES
    isFetching,     \* b.isFetching: the set of chat ids whose key is present
    cancelFunc,     \* b.cancelFunc: NoRun (nil) or the run whose cancel it is
    run,            \* the goroutines executing fetchNewsForChat
    ctxDone,        \* b.ctx has been cancelled (process shutdown)
    posted,         \* posted_articles: number of rows per (chat_id, link)
    pending,        \* pending_articles: set of rows
    nextId,         \* AUTOINCREMENT sequence of pending_articles
    elapsed,        \* time.Now() - chat_configs.last_fetched_at, per chat
    sent,           \* articles delivered by sendArticleToChannel
    modMsgs,        \* moderation messages delivered (with their buttons' id)
    spawned,        \* chats with a goroutine started by the dispatcher that
                    \* has not reached the guard yet
    hnd,            \* the goroutines handling moderation callbacks and edits (a bag)
    userStates,     \* b.userStates: the pending id a user is editing, or 0
    answered,       \* the text of the last answer given to a callback
    call,           \* a call looked at on its own: function, arguments, result
    summarizers,    \* b.summarizers: the instance stored under each key, or 0
    summarizerMutex,\* b.summarizerMutex: its writer (or 0) and its readers
    getters,        \* the goroutines executing getSummarizerForChat
    built           \* the instances ai.NewSummarizer has returned

\* the summarizer cache
cacheVars == <<summarizers, summarizerMutex, getters, built>>

vars == <<isFetching, cancelFunc, run, ctxDone, posted, pending, nextId,
          elapsed, sent, modMsgs, spawned, hnd, userStates, answered, call,
          cacheVars>>

\* ------------------------------------------------------------ storage
\* the insert that is lost
MarkAsPostedDropped(p, link, chatID) == p

\* a plain INSERT into a table without the (link, chat_id) key
MarkAsPostedAgain(p, link, chatID) == [p EXCEPT ![chatID][link] = @ + 1]

\* a table keyed by the link alone: one mark covers every chat
MarkAsPostedForAllChats(p, link, chatID) ==
    [c \in DOMAIN p |-> [p[c] EXCEPT ![link] = 1]]

\* INSERT OR IGNORE INTO posted_articles (link, chat_id)
MarkAsPosted(p, link, chatID) ==
    IF p[chatID][link] > 0 THEN p ELSE [p EXCEPT ![chatID][link] = 1]

\* SELECT EXISTS(... FROM posted_articles WHERE link = ? AND chat_id = ?)
IsAlreadyPosted(link, chatID) == posted[chatID][link] > 0

\* SELECT EXISTS(... FROM pending_articles WHERE link = ? AND chat_id = ?)
IsArticlePending(link, chatID) ==
    \E row \in pending : row.chat = chatID /\ row.link = link

\* ------------------------------------------------------------ discovery
\* item.PublishedParsed == nil
NoTime == -1

\* every dated item is kept, whatever its age
KeptItemsOfAnyAge(items, now, maxAge) ==
    SelectSeq(items, LAMBDA it : it.pub # NoTime)

\* fetcher.go 92-106: the loop over feed.Items, times in hours
RECURSIVE KeptItems(_, _, _)
KeptItems(items, now, maxAge) ==
    IF items = <<>> THEN <<>>
    ELSE IF Head(items).pub = NoTime THEN KeptItems(Tail(items), now, maxAge)
    ELSE IF now - Head(items).pub > maxAge THEN KeptItems(Tail(items), now, maxAge)
    ELSE <<Head(items)>> \o KeptItems(Tail(items), now, maxAge)

\* fetchFromRSS: a feed that cannot be fetched or parsed is an error;
\* otherwise one stub (Link, PubDate) per item kept
fetchFromRSS(feed, now, maxAgeHours) ==
    IF feed.err THEN Fail
    ELSE [err |-> FALSE, items |-> KeptItems(feed.items, now, maxAgeHours)]

\* One source's answer: Fail, or the stubs it yields (at most one here).
SourceResults(links) ==
    {Fail} \cup {[err |-> FALSE, items |-> s] :
                   s \in {<<>>} \cup {<<l>> : l \in links}}

\* a failing source fails the batch
RECURSIVE DiscoverArticlesAllOrNothing(_)
DiscoverArticlesAllOrNothing(results) ==
    IF \E i \in 1..Len(results) : results[i].err THEN <<>>
    ELSE IF results = <<>> THEN <<>>
    ELSE Head(results).items \o DiscoverArticlesAllOrNothing(Tail(results))

\* DiscoverArticles: failing sources are skipped, the others appended in
\* source order; the returned error is always nil.
RECURSIVE DiscoverArticles(_)
DiscoverArticles(results) ==
    IF results = <<>> THEN <<>>
    ELSE IF Head(results).err THEN DiscoverArticles(Tail(results))
    ELSE Head(results).items \o DiscoverArticles(Tail(results))

\* ------------------------------------------------------------ fetch run
IdleRun == [pc |-> "idle", chat |-> 0, manual |-> FALSE, cancelled |-> FALSE,
            limit |-> 0, approval |-> FALSE, stubs |-> <<>>,
            postedCount |-> 0, pid |-> 0,
            exit |-> "none", allFailed |-> FALSE, sumCancel |-> None,
            sendFail |-> None, pendSkip |-> None, sumFail |-> None,
            notice |-> None]

\* ctx.Done() of the run: its own cancel was called, or (scheduled runs,
\* whose parent is b.ctx) the process is shutting down.
Done(r) == run[r].cancelled \/ (~run[r].manual /\ ctxDone)

\* a guard that never sees the flag
AlreadyRunningUnseen(chatID) == FALSE

\* one flag for the whole bot
AlreadyRunningAny(chatID) == isFetching # {}

\* b.isFetching[chatID]
AlreadyRunning(chatID) == chatID \in isFetching

IdleRuns == {r \in Runs : run[r].pc = "idle"}
FreeRun == CHOOSE r \in IdleRuns : \A q \in IdleRuns : r <= q

\* a `continue` that stays on its stub
ContinueOnSameStub(r) == [run[r] EXCEPT !.pc = "checkpoint"]

\* `continue`: on to the next stub
Continue(r) == [run[r] EXCEPT !.pc = "checkpoint", !.stubs = Tail(@)]
\* `return`: the deferred cleanup runs next
Return(r, why) == [run[r] EXCEPT !.pc = "deferred", !.exit = why]

\* ------------------------------------------------------------ summarizer cache
\* chatCfg.GeminiModel and chatCfg.AiPrompt, strings stored as given: the
\* model names on offer contain "-" and one may extend another by "-...",
\* the prompt is free text
GeminiModels == {"m", "m-x"}
AiPrompts == {"p", "x-p"}
ChatCfgs == [model : GeminiModels, prompt : AiPrompts]

\* fmt.Sprintf("%s-%s", chatCfg.GeminiModel, chatCfg.AiPrompt)
ConfigKey(cfg) == cfg.model \o "-" \o cfg.prompt
ConfigKeys == {ConfigKey(cfg) : cfg \in ChatCfgs}

\* a nil *ai.Summarizer, an absent key
NoSummarizer == 0
\* the n-th instance returned by ai.NewSummarizer, made for cfg
Instance(n, cfg) == [id |-> n, model |-> cfg.model, prompt |-> cfg.prompt]

\* a goroutine in getSummarizerForChat(cfg): its place, what it has read or
\* built (summarizer) and what it returned (got, err)
IdleGetter == [pc |-> "idle", cfg |-> [model |-> None, prompt |-> None],
               summarizer |-> NoSummarizer, got |-> NoSummarizer, err |-> FALSE]

Unlocked == [writer |-> 0, readers |-> {}]

CacheInit ==
    /\ summarizers = [k \in ConfigKeys |-> NoSummarizer]
    /\ summarizerMutex = Unlocked
    /\ getters = [g \in Getters |-> IdleGetter]
    /\ built = {}

\* ------------------------------------------------------------ moderation
\* a goroutine handling a callback or a moderator's text, at place pc
Hnd(pc, id) == [pc |-> pc, id |-> id, user |-> 0, chat |-> 0, link |-> NoLink,
                text |-> None, hit |-> FALSE]

Init ==
    /\ isFetching = {}
    /\ cancelFunc = NoRun
    /\ run = [r \in Runs |-> IdleRun]
    /\ ctxDone = FALSE
    /\ posted = [t \in Tenants |-> [l \in StubLinks |-> 0]]
    /\ pending = {}
    /\ nextId = 1
    /\ elapsed = [t \in Tenants |-> MaxElapsed]
    /\ sent = {}
    /\ modMsgs = {}
    /\ spawned = {}
    /\ hnd = EmptyBag
    /\ userStates = [u \in Users |-> 0]
    /\ answered = None
    /\ call = NoCall
    /\ CacheInit

\* ------------------------------------------------------------ triggers
\* one minute passes
Tick ==
    /\ \E t \in Tenants : elapsed[t] < MaxElapsed
    /\ elapsed' = [t \in Tenants |->
                     IF elapsed[t] < MaxElapsed THEN elapsed[t] + 1 ELSE MaxElapsed]
    /\ UNCHANGED <<isFetching, cancelFunc, run, ctxDone, posted, pending,
                   nextId, sent, modMsgs, spawned, hnd,
                   userStates, answered, call, cacheVars>>

\* now.After(lastFetched.Add(interval))
IsDue(chatID, interval) == elapsed[chatID] > interval

\* GetAllChatConfigs over the active chats: the query failing, or the Scan of
\* any one row failing, fails the whole call
GetAllChatConfigs(chats, queryOk, bad) ==
    IF queryOk /\ bad = {} THEN [err |-> FALSE, rows |-> chats]
    ELSE [err |-> TRUE, rows |-> {}]

\* the chats one tick launches, given the answer of the query, the chats whose
\* row does not scan, and each chat's interval
Launch(chats, queryOk, bad, interval) ==
    IF GetAllChatConfigs(chats, queryOk, bad).err THEN {}
    ELSE {c \in GetAllChatConfigs(chats, queryOk, bad).rows : IsDue(c, interval[c])}

\* dispatchScheduledFetches: one tick of the one-minute job over the chats of
\* chat_configs
Dispatch(chats) ==
    /\ \E launched \in {Launch(chats, queryOk, bad, interval) :
                           queryOk \in BOOLEAN, bad \in SUBSET chats,
                           interval \in [chats -> 1..MaxInterval]} :
            spawned' = spawned \cup launched
    /\ UNCHANGED <<isFetching, cancelFunc, run, ctxDone, posted, pending,
                   nextId, elapsed, sent, modMsgs, hnd,
                   userStates, answered, call, cacheVars>>

\* /fetch_stop: call the published cancel function, if any
Stop ==
    /\ cancelFunc # NoRun
    /\ run' = [run EXCEPT ![cancelFunc].cancelled = TRUE]
    /\ UNCHANGED <<isFetching, cancelFunc, ctxDone, posted, pending,
                   nextId, elapsed, sent, modMsgs, spawned, hnd,
                   userStates, answered, call, cacheVars>>

\* process shutdown cancels b.ctx
Shutdown ==
    /\ ~ctxDone
    /\ ctxDone' = TRUE
    /\ UNCHANGED <<isFetching, cancelFunc, run, posted, pending, nextId,
                   elapsed, sent, modMsgs, spawned, hnd,
                   userStates, answered, call, cacheVars>>

\* ------------------------------------------------------------ fetchNewsForChat
\* news.go 47-54: the guard, under fetchingMutex
Guard(chatID, manual) ==
    IF AlreadyRunning(chatID)
    THEN UNCHANGED <<isFetching, run>>
    ELSE /\ IdleRuns # {}
         /\ isFetching' = isFetching \cup {chatID}
         /\ run' = [run EXCEPT ![FreeRun] =
                      [IdleRun EXCEPT !.pc = IF manual THEN "publish" ELSE "loadCfg",
                                      !.chat = chatID, !.manual = manual]]

\* a goroutine started by the dispatcher reaches the guard
Acquire(chatID) ==
    /\ chatID \in spawned
    /\ spawned' = spawned \ {chatID}
    /\ Guard(chatID, FALSE)
    /\ UNCHANGED <<cancelFunc, ctxDone, posted, pending, nextId, elapsed,
                   sent, modMsgs, hnd, userStates, answered, call, cacheVars>>

\* /fetch_now: fetchNewsForChat(ctx, chatID, true) reaches the guard
ManualTrigger(chatID) ==
    /\ Guard(chatID, TRUE)
    /\ UNCHANGED <<cancelFunc, ctxDone, posted, pending, nextId, elapsed,
                   sent, modMsgs, spawned, hnd, userStates, answered, call, cacheVars>>

\* news.go 82-86: a manual run publishes its cancel function
Publish(r) ==
    /\ run[r].pc = "publish"
    /\ cancelFunc' = r
    /\ run' = [run EXCEPT ![r].pc = "loadCfg"]
    /\ UNCHANGED <<isFetching, ctxDone, posted, pending, nextId, elapsed,
                   sent, modMsgs, spawned, hnd, userStates, answered, call, cacheVars>>

\* news.go 90-94: GetChatConfig
LoadCfg(r, approvals) ==
    /\ run[r].pc = "loadCfg"
    /\ \E ok \in BOOLEAN, lim \in 1..MaxPostLimit, ap \in approvals :
          run' = [run EXCEPT ![r] =
                    IF ok THEN [run[r] EXCEPT !.pc = "loadSrc", !.limit = lim,
                                              !.approval = ap]
                    ELSE Return(r, "cfgErr")]
    /\ UNCHANGED <<isFetching, cancelFunc, ctxDone, posted, pending,
                   nextId, elapsed, sent, modMsgs, spawned, hnd,
                   userStates, answered, call, cacheVars>>

\* the write that is forgotten
UpdateLastFetchedTimeSkipped(r) == elapsed

\* the write without the `if !manual` around it
UpdateLastFetchedTimeForAll(r) == [elapsed EXCEPT ![run[r].chat] = 0]

\* the UPDATE without its WHERE chat_id = ?
UpdateLastFetchedTimeOfAllChats(r) ==
    IF run[r].manual THEN elapsed ELSE [t \in Tenants |-> 0]

\* UpdateLastFetchedTime(chatID, time.Now()), skipped by manual runs
UpdateLastFetchedTime(r) ==
    IF run[r].manual THEN elapsed ELSE [elapsed EXCEPT ![run[r].chat] = 0]

\* news.go 96-116: GetNewsSourcesForChat, the no-source branch, then
\* DiscoverArticles over the sources' answers
LoadSources(r, links) ==
    /\ run[r].pc = "loadSrc"
    /\ \/ /\ run' = [run EXCEPT ![r] = Return(r, "srcErr")]
          /\ UNCHANGED elapsed
       \/ /\ elapsed' = UpdateLastFetchedTime(r)
          /\ run' = [run EXCEPT ![r] = Return(r, "noSources")]
       \/ /\ \E n \in 1..MaxSources :
               \E results \in [1..n -> SourceResults(links)] :
                  run' = [run EXCEPT ![r] =
                            [run[r] EXCEPT !.pc = "checkpoint",
                                           !.stubs = DiscoverArticles(results),
                                           !.allFailed = \A i \in 1..n : results[i].err]]
          /\ UNCHANGED elapsed
    /\ UNCHANGED <<isFetching, cancelFunc, ctxDone, posted, pending,
                   nextId, sent, modMsgs, spawned, hnd,
                   userStates, answered, call, cacheVars>>

\* `return` instead of `break` when the post ceiling is reached
CheckpointReturnsAtCeiling(r) ==
    /\ run[r].pc = "checkpoint"
    /\ run' = [run EXCEPT ![r] =
                 IF run[r].stubs = <<>> THEN [run[r] EXCEPT !.pc = "updateLast"]
                 ELSE IF Done(r) THEN Return(r, "cancelled")
                 ELSE IF run[r].postedCount >= run[r].limit THEN Return(r, "done")
                 ELSE [run[r] EXCEPT !.pc = "checkPosted"]]
    /\ UNCHANGED <<isFetching, cancelFunc, ctxDone, posted, pending,
                   nextId, elapsed, sent, modMsgs, spawned, hnd,
                   userStates, answered, call, cacheVars>>

\* a loop head that does not look at ctx.Done()
CheckpointUncancellable(r) ==
    /\ run[r].pc = "checkpoint"
    /\ run' = [run EXCEPT ![r] =
                 IF run[r].stubs = <<>> THEN [run[r] EXCEPT !.pc = "updateLast"]
                 ELSE IF run[r].postedCount >= run[r].limit
                      THEN [run[r] EXCEPT !.pc = "updateLast"]
                 ELSE [run[r] EXCEPT !.pc = "checkPosted"]]
    /\ UNCHANGED <<isFetching, cancelFunc, ctxDone, posted, pending,
                   nextId, elapsed, sent, modMsgs, spawned, hnd,
                   userStates, answered, call, cacheVars>>

\* a loop head without the post ceiling
CheckpointNoCeiling(r) ==
    /\ run[r].pc = "checkpoint"
    /\ run' = [run EXCEPT ![r] =
                 IF run[r].stubs = <<>> THEN [run[r] EXCEPT !.pc = "updateLast"]
                 ELSE IF Done(r) THEN Return(r, "cancelled")
                 ELSE [run[r] EXCEPT !.pc = "checkPosted"]]
    /\ UNCHANGED <<isFetching, cancelFunc, ctxDone, posted, pending,
                   nextId, elapsed, sent, modMsgs, spawned, hnd,
                   userStates, answered, call, cacheVars>>

\* news.go 119-129: loop head, cancellation checkpoint, post ceiling
Checkpoint(r) ==
    /\ run[r].pc = "checkpoint"
    /\ run' = [run EXCEPT ![r] =
                 IF run[r].stubs = <<>> THEN [run[r] EXCEPT !.pc = "updateLast"]
                 ELSE IF Done(r) THEN Return(r, "cancelled")
                 ELSE IF run[r].postedCount >= run[r].limit
                      THEN [run[r] EXCEPT !.pc = "updateLast"]
                 ELSE [run[r] EXCEPT !.pc = "checkPosted"]]
    /\ UNCHANGED <<isFetching, cancelFunc, ctxDone, posted, pending,
                   nextId, elapsed, sent, modMsgs, spawned, hnd,
                   userStates, answered, call, cacheVars>>

\* news.go 131: posted, _ := IsAlreadyPosted(...).  When it is true the
\* stub is skipped whatever IsArticlePending answers.
CheckPosted(r) ==
    /\ run[r].pc = "checkPosted"
    /\ run' = [run EXCEPT ![r] =
                 IF IsAlreadyPosted(Head(run[r].stubs), run[r].chat)
                 THEN Continue(r)
                 ELSE [run[r] EXCEPT !.pc = "checkPending"]]
    /\ UNCHANGED <<isFetching, cancelFunc, ctxDone, posted, pending,
                   nextId, elapsed, sent, modMsgs, spawned, hnd,
                   userStates, answered, call, cacheVars>>

\* an admission that does not look at pending_articles
CheckPendingSkipped(r) ==
    /\ run[r].pc = "checkPending"
    /\ run' = [run EXCEPT ![r].pc = "scrape"]
    /\ UNCHANGED <<isFetching, cancelFunc, ctxDone, posted, pending,
                   nextId, elapsed, sent, modMsgs, spawned, hnd,
                   userStates, answered, call, cacheVars>>

\* news.go 132-135: pending, _ := IsArticlePending(...); pendSkip remembers
\* the last link the run skipped for being pending
CheckPending(r) ==
    /\ run[r].pc = "checkPending"
    /\ run' = [run EXCEPT ![r] =
                 IF IsArticlePending(Head(run[r].stubs), run[r].chat)
                 THEN [Continue(r) EXCEPT !.pendSkip = Head(run[r].stubs)]
                 ELSE [run[r] EXCEPT !.pc = "scrape"]]
    /\ UNCHANGED <<isFetching, cancelFunc, ctxDone, posted, pending,
                   nextId, elapsed, sent, modMsgs, spawned, hnd,
                   userStates, answered, call, cacheVars>>

\* a failed extraction that leaves no mark
ScrapeFailureUnmarked(r) ==
    /\ run[r].pc = "scrape"
    /\ \E ok \in BOOLEAN :
         run' = [run EXCEPT ![r] =
                   IF ok /\ Head(run[r].stubs) # NoLink
                   THEN [run[r] EXCEPT !.pc = "getSummarizer"]
                   ELSE Continue(r)]
    /\ UNCHANGED <<isFetching, cancelFunc, ctxDone, posted, pending, nextId,
                   elapsed, sent, modMsgs, spawned, hnd,
                   userStates, answered, call, cacheVars>>

\* news.go 137-144: ScrapeArticleDetails; a failure marks the link posted.
\* An empty link cannot be fetched.
Scrape(r) ==
    /\ run[r].pc = "scrape"
    /\ \E ok \in BOOLEAN :
         IF ok /\ Head(run[r].stubs) # NoLink
         THEN /\ run' = [run EXCEPT ![r].pc = "getSummarizer"]
              /\ UNCHANGED posted
         ELSE /\ posted' = MarkAsPosted(posted, Head(run[r].stubs), run[r].chat)
              /\ run' = [run EXCEPT ![r] = Continue(r)]
    /\ UNCHANGED <<isFetching, cancelFunc, ctxDone, pending, nextId,
                   elapsed, sent, modMsgs, spawned, hnd,
                   userStates, answered, call, cacheVars>>

\* `continue` after a summarizer could not be obtained or a summarization
\* failed; sumFail remembers the link
SkipUnsummarized(r) == [Continue(r) EXCEPT !.sumFail = Head(run[r].stubs)]

\* news.go 146-150: getSummarizerForChat
GetSummarizer(r) ==
    /\ run[r].pc = "getSummarizer"
    /\ \E ok \in BOOLEAN :
         run' = [run EXCEPT ![r] =
                   IF ok THEN [run[r] EXCEPT !.pc = "summarize"]
                   ELSE SkipUnsummarized(r)]
    /\ UNCHANGED <<isFetching, cancelFunc, ctxDone, posted, pending,
                   nextId, elapsed, sent, modMsgs, spawned, hnd,
                   userStates, answered, call, cacheVars>>

\* news.go 152-158: Summarize(ctx, ...).  With ctx cancelled the call
\* returns context.Canceled; every error is answered with `continue`.
\* the error of a cancelled call that is not looked at
SummarizeCancelledUnnoticed(r) ==
    [run[r] EXCEPT !.pc = IF run[r].approval THEN "addPending" ELSE "send",
                   !.sumCancel = Head(run[r].stubs)]

SummarizeCancelled(r) == [Continue(r) EXCEPT !.sumCancel = Head(run[r].stubs)]

\* a failed summarization that marks the link like a failed extraction does
SummarizeFailureMarksPosted(r) ==
    /\ run[r].pc = "summarize"
    /\ \E ok \in BOOLEAN :
         /\ run' = [run EXCEPT ![r] =
                      IF Done(r) THEN SummarizeCancelled(r)
                      ELSE IF ok
                           THEN [run[r] EXCEPT !.pc = IF run[r].approval
                                                      THEN "addPending" ELSE "send"]
                           ELSE SkipUnsummarized(r)]
         /\ posted' = IF ~Done(r) /\ ~ok
                       THEN MarkAsPosted(posted, Head(run[r].stubs), run[r].chat)
                       ELSE posted
    /\ UNCHANGED <<isFetching, cancelFunc, ctxDone, pending,
                   nextId, elapsed, sent, modMsgs, spawned, hnd,
                   userStates, answered, call, cacheVars>>

Summarize(r) ==
    /\ run[r].pc = "summarize"
    /\ \E ok \in BOOLEAN :
         run' = [run EXCEPT ![r] =
                   IF Done(r) THEN SummarizeCancelled(r)
                   ELSE IF ok
                        THEN [run[r] EXCEPT !.pc = IF run[r].approval
                                                   THEN "addPending" ELSE "send"]
                        ELSE SkipUnsummarized(r)]
    /\ UNCHANGED <<isFetching, cancelFunc, ctxDone, posted, pending,
                   nextId, elapsed, sent, modMsgs, spawned, hnd,
                   userStates, answered, call, cacheVars>>

\* a message handed to b.api.Send
Message(kind, chatID, replyTo, caption) ==
    [kind |-> kind, chat |-> chatID, replyTo |-> replyTo, caption |-> caption]

\* a source of the chat whose topic names no destination
SourceOf(chatID) == [chat |-> chatID, dest |-> 0, replyTo |-> 0]

NoImage == ""
ImageURLs == {NoImage, "img"}

\* a photo that fails is the end of it
SendArticleToChannelPhotoOnly(imageURL, caption, source, photoOk, textOk) ==
    LET chatID == IF source.dest = 0 THEN source.chat ELSE source.dest
    IN  IF imageURL = NoImage
        THEN [attempts |-> <<Message("text", chatID, source.replyTo, caption)>>,
              ok |-> textOk]
        ELSE [attempts |-> <<Message("photo", chatID, source.replyTo, caption)>>,
              ok |-> photoOk]

\* news.go 190-232: sendArticleToChannel.  The caption is formatted once; the
\* destination is the source's DestinationChatID, or its ChatID when that is
\* 0.  A photo is tried when the article has an image, with a text message as
\* fallback; the result is the messages attempted and whether the last
\* attempt succeeded.
SendArticleToChannel(imageURL, caption, source, photoOk, textOk) ==
    LET chatID == IF source.dest = 0 THEN source.chat ELSE source.dest
        text == Message("text", chatID, source.replyTo, caption)
        photo == Message("photo", chatID, source.replyTo, caption)
    IN  IF imageURL = NoImage THEN [attempts |-> <<text>>, ok |-> textOk]
        ELSE IF photoOk THEN [attempts |-> <<photo>>, ok |-> TRUE]
        ELSE [attempts |-> <<photo, text>>, ok |-> textOk]

Delivery(chatID, link, via) == [chat |-> chatID, link |-> link, via |-> via]

\* a failed delivery that marks the link like a failed extraction does
SendFailureMarksPosted(r) ==
    /\ run[r].pc = "send"
    /\ \E image \in ImageURLs, photoOk \in BOOLEAN, textOk \in BOOLEAN :
         IF SendArticleToChannel(image, AISummary, SourceOf(run[r].chat),
                                 photoOk, textOk).ok
         THEN /\ sent' = sent \cup {Delivery(run[r].chat, Head(run[r].stubs), "run")}
              /\ run' = [run EXCEPT ![r].pc = "mark"]
              /\ UNCHANGED posted
         ELSE /\ run' = [run EXCEPT ![r] =
                           [Continue(r) EXCEPT !.sendFail = Head(run[r].stubs)]]
              /\ posted' = MarkAsPosted(posted, Head(run[r].stubs), run[r].chat)
              /\ UNCHANGED sent
    /\ UNCHANGED <<isFetching, cancelFunc, ctxDone, pending,
                   nextId, elapsed, modMsgs, spawned, hnd,
                   userStates, answered, call, cacheVars>>

\* news.go 166-171: the non-approval delivery; sendFail remembers the link of
\* the run's last failed delivery
Send(r) ==
    /\ run[r].pc = "send"
    /\ \E image \in ImageURLs, photoOk \in BOOLEAN, textOk \in BOOLEAN :
         IF SendArticleToChannel(image, AISummary, SourceOf(run[r].chat),
                                 photoOk, textOk).ok
         THEN /\ sent' = sent \cup {Delivery(run[r].chat, Head(run[r].stubs), "run")}
              /\ run' = [run EXCEPT ![r].pc = "mark"]
         ELSE /\ run' = [run EXCEPT ![r] =
                           [Continue(r) EXCEPT !.sendFail = Head(run[r].stubs)]]
              /\ UNCHANGED sent
    /\ UNCHANGED <<isFetching, cancelFunc, ctxDone, posted, pending,
                   nextId, elapsed, modMsgs, spawned, hnd,
                   userStates, answered, call, cacheVars>>

\* news.go 172-174: MarkAsPosted after a successful delivery; postedCount++
Mark(r) ==
    /\ run[r].pc = "mark"
    /\ posted' = MarkAsPosted(posted, Head(run[r].stubs), run[r].chat)
    /\ run' = [run EXCEPT ![r].pc = "delay", ![r].postedCount = @ + 1]
    /\ UNCHANGED <<isFetching, cancelFunc, ctxDone, pending, nextId,
                   elapsed, sent, modMsgs, spawned, hnd,
                   userStates, answered, call, cacheVars>>

PendingRow(id, chatID, link, summary) ==
    [id |-> id, chat |-> chatID, link |-> link, summary |-> summary]

ModMsg(id, summary, edited) == [id |-> id, summary |-> summary, edited |-> edited]

\* an INSERT into a table without the UNIQUE constraint
AddPendingArticleNotUnique(rows, id, chatID, link, summary) ==
    [err |-> FALSE, rows |-> rows \cup {PendingRow(id, chatID, link, summary)}]

\* storage.go 727-734 on the table of 372-383: the INSERT fails on
\* UNIQUE(chat_id, link) when the chat already has a row with the link, and
\* the error is returned; otherwise the row gets the next AUTOINCREMENT id
AddPendingArticle(rows, id, chatID, link, summary) ==
    IF \E row \in rows : row.chat = chatID /\ row.link = link
    THEN [err |-> TRUE, rows |-> rows]
    ELSE [err |-> FALSE, rows |-> rows \cup {PendingRow(id, chatID, link, summary)}]

\* news.go 281-294: AddPendingArticle; UNIQUE(chat_id, link) makes the
\* insert fail when the link is already pending for the chat.
AddPending(r) ==
    /\ run[r].pc = "addPending"
    /\ LET added == AddPendingArticle(pending, nextId, run[r].chat,
                                      Head(run[r].stubs), AISummary)
       IN IF added.err
          THEN /\ run' = [run EXCEPT ![r] = Continue(r)]
               /\ UNCHANGED <<pending, nextId>>
          ELSE /\ nextId <= MaxPendingId
               /\ pending' = added.rows
               /\ nextId' = nextId + 1
               /\ run' = [run EXCEPT ![r].pc = "sendMod", ![r].pid = nextId]
    /\ UNCHANGED <<isFetching, cancelFunc, ctxDone, posted, elapsed, sent,
                   modMsgs, spawned, hnd, userStates, answered, call, cacheVars>>

\* news.go 296-319 and 160-165, 174: the moderation message; postedCount++
SendMod(r) ==
    /\ run[r].pc = "sendMod"
    /\ \E ok \in BOOLEAN :
         IF ok
         THEN /\ modMsgs' = modMsgs \cup {ModMsg(run[r].pid, AISummary, FALSE)}
              /\ run' = [run EXCEPT ![r].pc = "delay", ![r].postedCount = @ + 1]
         ELSE /\ run' = [run EXCEPT ![r] = Continue(r)]
              /\ UNCHANGED modMsgs
    /\ UNCHANGED <<isFetching, cancelFunc, ctxDone, posted, pending,
                   nextId, elapsed, sent, spawned, hnd,
                   userStates, answered, call, cacheVars>>

\* a blind sleep
DelayBlind(r) ==
    /\ run[r].pc = "delay"
    /\ run' = [run EXCEPT ![r] = Continue(r)]
    /\ UNCHANGED <<isFetching, cancelFunc, ctxDone, posted, pending,
                   nextId, elapsed, sent, modMsgs, spawned, hnd,
                   userStates, answered, call, cacheVars>>

\* news.go 176-181: the five-second delay, ended early by cancellation
Delay(r) ==
    /\ run[r].pc = "delay"
    /\ run' = [run EXCEPT ![r] =
                 IF Done(r) THEN Return(r, "cancelled") ELSE Continue(r)]
    /\ UNCHANGED <<isFetching, cancelFunc, ctxDone, posted, pending,
                   nextId, elapsed, sent, modMsgs, spawned, hnd,
                   userStates, answered, call, cacheVars>>

\* news.go 183-187: after the loop, a scheduled run stores time.Now()
UpdateLast(r) ==
    /\ run[r].pc = "updateLast"
    /\ elapsed' = UpdateLastFetchedTime(r)
    /\ run' = [run EXCEPT ![r] = Return(r, "done")]
    /\ UNCHANGED <<isFetching, cancelFunc, ctxDone, posted, pending,
                   nextId, sent, modMsgs, spawned, hnd,
                   userStates, answered, call, cacheVars>>

\* a cleanup that forgets the flag
DeferredKeepsFlag(r) ==
    /\ run[r].pc = "deferred"
    /\ cancelFunc' = IF run[r].manual THEN NoRun ELSE cancelFunc
    /\ run' = [run EXCEPT ![r] = IdleRun]
    /\ UNCHANGED <<isFetching, ctxDone, posted, pending, nextId, elapsed, sent,
                   modMsgs, spawned, hnd, userStates, answered, call, cacheVars>>

\* ctx.Err() of the context made by context.WithCancel(parentCtx) at news.go
\* 56: Canceled once the run's cancel function has been called, by a stop
\* or by the run itself, or once the parent is done; nil before
CtxErr(r, cancelCalled) ==
    IF cancelCalled \/ Done(r) THEN "Canceled" ELSE None

\* news.go 66-79, which run after the cancel() of line 64: the message a
\* manual run sends to its chat; a scheduled run only logs
Notice(r) ==
    IF ~run[r].manual THEN None
    ELSE IF CtxErr(r, TRUE) = "Canceled" THEN "fetch_stop_success"
    ELSE "fetch_now_completed"

\* the goroutine is gone; the message it sent last stays in the chat
Cleaned(r) == [IdleRun EXCEPT !.notice = Notice(r)]

\* news.go 57-80: the deferred cleanup
Deferred(r) ==
    /\ run[r].pc = "deferred"
    /\ isFetching' = isFetching \ {run[r].chat}
    /\ cancelFunc' = IF run[r].manual THEN NoRun ELSE cancelFunc
    /\ run' = [run EXCEPT ![r] = Cleaned(r)]
    /\ UNCHANGED <<ctxDone, posted, pending, nextId, elapsed, sent,
                   modMsgs, spawned, hnd, userStates, answered, call, cacheVars>>

\* the steps every run takes
CommonStep(r, links, approvals) ==
    \/ LoadCfg(r, approvals) \/ LoadSources(r, links) \/ Checkpoint(r)
    \/ CheckPosted(r) \/ CheckPending(r) \/ Scrape(r) \/ GetSummarizer(r)
    \/ Summarize(r) \/ Delay(r) \/ UpdateLast(r) \/ Deferred(r)

\* the steps of the non-approval delivery
DirectStep(r) == Send(r) \/ Mark(r)

\* the steps of the approval path
ModerationStep(r) == AddPending(r) \/ SendMod(r)

\* ------------------------------------------------------------ moderation
HasPending(id) == \E row \in pending : row.id = id

\* GetPendingArticle(id), for an id that HasPending
GetPendingArticle(id) == CHOOSE row \in pending : row.id = id

\* the delete that removes nothing
DeletePendingArticleKept(rows, id) == rows

\* DELETE FROM pending_articles WHERE id = ?
DeletePendingArticle(rows, id) == {row \in rows : row.id # id}

\* an UPDATE without its WHERE clause
UpdatePendingArticleSummaryOfAll(rows, id, summary) ==
    {[row EXCEPT !.summary = summary] : row \in rows}

\* UPDATE pending_articles SET summary = ? WHERE id = ?
UpdatePendingArticleSummary(rows, id, summary) ==
    {IF row.id = id THEN [row EXCEPT !.summary = summary] ELSE row : row \in rows}

\* ------------------------------------------------------------ callbacks
\* the ids a moderator can address: those of the moderation messages sent
ButtonIds == {m.id : m \in modMsgs}

\* the handler goroutines alive
Handlers == BagToSet(hnd)
\* one more goroutine fits the model
CanHandle == BagCardinality(hnd) < MaxHandlers

Started(g) == hnd (+) SetToBag({g})
Ended(h) == hnd (-) SetToBag({h})
Moved(h, g) == Ended(h) (+) SetToBag({g})

\* every refusal answered as a failure
AnsweringFailure(text) ==
    /\ answered' = "failed"
    /\ UNCHANGED <<hnd, userStates>>

\* b.api.Request(tgbotapi.NewCallback(callback.ID, text)), then return
Answering(text) ==
    /\ answered' = text
    /\ UNCHANGED <<hnd, userStates>>

\* the handler goes on with the row it has read, of which it will use
\* pendingArticle.ChatID and pendingArticle.Link
Handling(pc, id) ==
    /\ hnd' = Started([Hnd(pc, id) EXCEPT !.chat = GetPendingArticle(id).chat,
                                          !.link = GetPendingArticle(id).link])
    /\ UNCHANGED <<userStates, answered>>

\* handlers_callback.go 205-225: handleApproveArticle up to the delivery
handleApproveArticle(id) ==
    /\ IF ~HasPending(id) THEN Answering("processed")
       ELSE \E admin \in BOOLEAN, cfgOk \in BOOLEAN :
              IF ~admin THEN Answering("denied")
              ELSE IF ~cfgOk THEN UNCHANGED <<hnd, userStates, answered>>
              ELSE Handling("aSend", id)
    /\ UNCHANGED <<isFetching, cancelFunc, run, ctxDone, posted, pending,
                   nextId, elapsed, sent, modMsgs, spawned, call, cacheVars>>

\* handlers_callback.go 273-287: handleRejectArticle up to the first write
handleRejectArticle(id) ==
    /\ IF ~HasPending(id) THEN Answering("processed")
       ELSE \E admin \in BOOLEAN :
              IF ~admin THEN Answering("denied") ELSE Handling("rMark", id)
    /\ UNCHANGED <<isFetching, cancelFunc, run, ctxDone, posted, pending,
                   nextId, elapsed, sent, modMsgs, spawned, call, cacheVars>>

\* handlers_callback.go 301-328: handleEditArticle puts the user in
\* StateAwaitingArticleEdit and asks for the new summary
handleEditArticle(id, u) ==
    /\ IF ~HasPending(id) THEN Answering("processed")
       ELSE \E admin \in BOOLEAN :
              IF ~admin THEN Answering("denied")
              ELSE /\ userStates' = [userStates EXCEPT ![u] = id]
                   /\ UNCHANGED <<hnd, answered>>
    /\ UNCHANGED <<isFetching, cancelFunc, run, ctxDone, posted, pending,
                   nextId, elapsed, sent, modMsgs, spawned, call, cacheVars>>

\* handlers_callback.go 13-28: a callback of a user who is not an admin of
\* the chat the button was pressed in is refused before it is dispatched
CallbackDenied ==
    /\ Answering("denied")
    /\ UNCHANGED <<isFetching, cancelFunc, run, ctxDone, posted, pending,
                   nextId, elapsed, sent, modMsgs, spawned, call, cacheVars>>

\* handlers_callback.go 13-203: handleCallbackQuery, one goroutine per callback
handleCallbackQuery(id, u) ==
    /\ id \in ButtonIds
    /\ CanHandle
    /\ \/ CallbackDenied
       \/ handleApproveArticle(id)
       \/ handleRejectArticle(id)
       \/ handleEditArticle(id, u)

\* an approval that goes on to its writes whether or not the delivery worked
ApproveSendFailureDecides(h) ==
    /\ h.pc = "aSend"
    /\ \E image \in ImageURLs, photoOk \in BOOLEAN, textOk \in BOOLEAN :
         /\ sent' = IF SendArticleToChannel(image, AISummary, SourceOf(h.chat),
                                            photoOk, textOk).ok
                    THEN sent \cup {Delivery(h.chat, h.link, "approve")}
                    ELSE sent
         /\ hnd' = Moved(h, [h EXCEPT !.pc = "aMark"])
    /\ UNCHANGED <<isFetching, cancelFunc, run, ctxDone, posted, pending,
                   nextId, elapsed, modMsgs, spawned, userStates, answered, call, cacheVars>>

\* handlers_callback.go 256-259: the stored article is delivered
ApproveSend(h) ==
    /\ h.pc = "aSend"
    /\ \E image \in ImageURLs, photoOk \in BOOLEAN, textOk \in BOOLEAN :
         IF SendArticleToChannel(image, AISummary, SourceOf(h.chat),
                                 photoOk, textOk).ok
         THEN /\ sent' = sent \cup {Delivery(h.chat, h.link, "approve")}
              /\ hnd' = Moved(h, [h EXCEPT !.pc = "aMark"])
         ELSE /\ hnd' = Ended(h)
              /\ UNCHANGED sent
    /\ UNCHANGED <<isFetching, cancelFunc, run, ctxDone, posted, pending,
                   nextId, elapsed, modMsgs, spawned, userStates, answered, call, cacheVars>>

\* handlers_callback.go 261-263
ApproveMark(h) ==
    /\ h.pc = "aMark"
    /\ posted' = MarkAsPosted(posted, h.link, h.chat)
    /\ hnd' = Moved(h, [h EXCEPT !.pc = "aDelete"])
    /\ UNCHANGED <<isFetching, cancelFunc, run, ctxDone, pending, nextId,
                   elapsed, sent, modMsgs, spawned, userStates, answered, call, cacheVars>>

\* handlers_callback.go 264-270: the row is deleted and the moderation
\* message rewritten to show the decision
ApproveDelete(h) ==
    /\ h.pc = "aDelete"
    /\ pending' = DeletePendingArticle(pending, h.id)
    /\ hnd' = Ended(h)
    /\ UNCHANGED <<isFetching, cancelFunc, run, ctxDone, posted, nextId,
                   elapsed, sent, modMsgs, spawned, userStates, answered, call, cacheVars>>

\* handlers_callback.go 289-291
RejectMark(h) ==
    /\ h.pc = "rMark"
    /\ posted' = MarkAsPosted(posted, h.link, h.chat)
    /\ hnd' = Moved(h, [h EXCEPT !.pc = "rDelete"])
    /\ UNCHANGED <<isFetching, cancelFunc, run, ctxDone, pending, nextId,
                   elapsed, sent, modMsgs, spawned, userStates, answered, call, cacheVars>>

\* handlers_callback.go 292-298
RejectDelete(h) ==
    /\ h.pc = "rDelete"
    /\ pending' = DeletePendingArticle(pending, h.id)
    /\ hnd' = Ended(h)
    /\ UNCHANGED <<isFetching, cancelFunc, run, ctxDone, posted, nextId,
                   elapsed, sent, modMsgs, spawned, userStates, answered, call, cacheVars>>

\* clearUserState(userID)
clearUserState(u) == [userStates EXCEPT ![u] = 0]

\* handleStatefulMessage, StateAwaitingArticleEdit (part_009 89-103): the
\* text a user in that state sends replaces the summary
EditUpdate(u) ==
    /\ userStates[u] # 0
    /\ CanHandle
    /\ \E ok \in BOOLEAN, text \in EditTexts :
         IF ok
         THEN /\ pending' = UpdatePendingArticleSummary(pending, userStates[u], text)
              /\ hnd' = Started([Hnd("eGet", userStates[u]) EXCEPT
                                    !.user = u, !.text = text,
                                    !.hit = HasPending(userStates[u])])
         ELSE UNCHANGED <<pending, hnd>>
    /\ UNCHANGED <<isFetching, cancelFunc, run, ctxDone, posted, nextId,
                   elapsed, sent, modMsgs, spawned, userStates, answered, call, cacheVars>>

\* an edit that regenerates the message without reading the row back
EditGetUnchecked(h) ==
    /\ h.pc = "eGet"
    /\ hnd' = Moved(h, [h EXCEPT !.pc = "eSend"])
    /\ UNCHANGED <<isFetching, cancelFunc, run, ctxDone, posted, pending,
                   nextId, elapsed, sent, modMsgs, spawned, userStates, answered,
                   call, cacheVars>>

\* part_009 105-118: the row is read back, then the chat's configuration
\* is loaded; without either the edit ends here
EditGet(h) ==
    /\ h.pc = "eGet"
    /\ \E cfgOk \in BOOLEAN :
         IF HasPending(h.id) /\ cfgOk
         THEN /\ hnd' = Moved(h, [h EXCEPT !.pc = "eSend"])
              /\ UNCHANGED userStates
         ELSE /\ hnd' = Ended(h)
              /\ userStates' = clearUserState(h.user)
    /\ UNCHANGED <<isFetching, cancelFunc, run, ctxDone, posted, pending,
                   nextId, elapsed, sent, modMsgs, spawned, answered, call, cacheVars>>

\* part_009 120-136: the regenerated moderation message, captioned with
\* the new summary, its buttons bound to articleID
EditSend(h) ==
    /\ h.pc = "eSend"
    /\ modMsgs' = modMsgs \cup {ModMsg(h.id, h.text, TRUE)}
    /\ hnd' = Ended(h)
    /\ userStates' = clearUserState(h.user)
    /\ UNCHANGED <<isFetching, cancelFunc, run, ctxDone, posted, pending,
                   nextId, elapsed, sent, spawned, answered, call, cacheVars>>

\* ------------------------------------------------------------ getSummarizerForChat
\* everything but the cache
pipelineVars == <<isFetching, cancelFunc, run, ctxDone, posted, pending, nextId,
                  elapsed, sent, modMsgs, spawned, hnd, userStates, answered,
                  call>>

\* `return summarizer, err`
Returned(g, summarizer, err) ==
    [getters[g] EXCEPT !.pc = "returned", !.got = summarizer, !.err = err,
                       !.summarizer = NoSummarizer]

\* a run or an approval calls getSummarizerForChat(chatCfg)
GetCall(g, cfg) ==
    /\ getters[g].pc \in {"idle", "returned"}
    /\ getters' = [getters EXCEPT ![g] = [IdleGetter EXCEPT !.pc = "rlock",
                                                            !.cfg = cfg]]
    /\ UNCHANGED <<summarizers, summarizerMutex, built, pipelineVars>>

\* bot.go 78: b.summarizerMutex.RLock()
GetRLock(g) ==
    /\ getters[g].pc = "rlock"
    /\ summarizerMutex.writer = 0
    /\ summarizerMutex' = [summarizerMutex EXCEPT !.readers = @ \cup {g}]
    /\ getters' = [getters EXCEPT ![g].pc = "read"]
    /\ UNCHANGED <<summarizers, built, pipelineVars>>

\* bot.go 79-81: the first look, then RUnlock
GetRead(g) ==
    /\ getters[g].pc = "read"
    /\ summarizerMutex' = [summarizerMutex EXCEPT !.readers = @ \ {g}]
    /\ getters' = [getters EXCEPT ![g].pc = "exists",
                      ![g].summarizer = summarizers[ConfigKey(getters[g].cfg)]]
    /\ UNCHANGED <<summarizers, built, pipelineVars>>

\* bot.go 83-85: a hit is returned
GetExists(g) ==
    /\ getters[g].pc = "exists"
    /\ getters' = [getters EXCEPT ![g] =
                     IF getters[g].summarizer # NoSummarizer
                     THEN Returned(g, getters[g].summarizer, FALSE)
                     ELSE [getters[g] EXCEPT !.pc = "lock"]]
    /\ UNCHANGED <<summarizers, summarizerMutex, built, pipelineVars>>

\* bot.go 87: b.summarizerMutex.Lock()
GetLock(g) ==
    /\ getters[g].pc = "lock"
    /\ summarizerMutex = Unlocked
    /\ summarizerMutex' = [summarizerMutex EXCEPT !.writer = g]
    /\ getters' = [getters EXCEPT ![g].pc = "recheck"]
    /\ UNCHANGED <<summarizers, built, pipelineVars>>

\* a miss under the read lock is taken for a miss under the write lock
GetRecheckSkipped(g) ==
    /\ getters[g].pc = "recheck"
    /\ getters' = [getters EXCEPT ![g].pc = "construct"]
    /\ UNCHANGED <<summarizers, summarizerMutex, built, pipelineVars>>

\* bot.go 90-93: the second look, under the write lock; a hit is returned
\* and the deferred Unlock runs
GetRecheck(g) ==
    /\ getters[g].pc = "recheck"
    /\ IF summarizers[ConfigKey(getters[g].cfg)] # NoSummarizer
       THEN /\ getters' = [getters EXCEPT ![g] =
                   Returned(g, summarizers[ConfigKey(getters[g].cfg)], FALSE)]
            /\ summarizerMutex' = Unlocked
       ELSE /\ getters' = [getters EXCEPT ![g].pc = "construct"]
            /\ UNCHANGED summarizerMutex
    /\ UNCHANGED <<summarizers, built, pipelineVars>>

\* bot.go 95-99: ai.NewSummarizer; an error is returned and the deferred
\* Unlock runs
GetConstruct(g) ==
    /\ getters[g].pc = "construct"
    /\ \E ok \in BOOLEAN :
         IF ok
         THEN /\ Cardinality(built) < MaxInstances
              /\ built' = built \cup {Instance(Cardinality(built) + 1, getters[g].cfg)}
              /\ getters' = [getters EXCEPT ![g].pc = "store",
                                ![g].summarizer = Cardinality(built) + 1]
              /\ UNCHANGED summarizerMutex
         ELSE /\ getters' = [getters EXCEPT ![g] = Returned(g, NoSummarizer, TRUE)]
              /\ summarizerMutex' = Unlocked
              /\ UNCHANGED built
    /\ UNCHANGED <<summarizers, pipelineVars>>

\* bot.go 101-102: the instance is stored and returned; the deferred Unlock
GetStore(g) ==
    /\ getters[g].pc = "store"
    /\ summarizers' = [summarizers EXCEPT ![ConfigKey(getters[g].cfg)] =
                          getters[g].summarizer]
    /\ getters' = [getters EXCEPT ![g] = Returned(g, getters[g].summarizer, FALSE)]
    /\ summarizerMutex' = Unlocked
    /\ UNCHANGED <<built, pipelineVars>>

\* ------------------------------------------------------------ specifications
\* the chats that are configured and receive triggers
FocusTenants == {1}

\* The fetch runs of the configured chats, scheduled and manual, with
\* cancellation and shutdown.
Next ==
    \/ Tick
    \/ Dispatch(FocusTenants)
    \/ \E t \in FocusTenants : ManualTrigger(t)
    \/ Stop
    \/ Shutdown
    \/ \E c \in Tenants : Acquire(c)
    \/ \E r \in Runs : Publish(r)
    \/ \E r \in Runs : CommonStep(r, Links, BOOLEAN)
    \/ \E r \in Runs : DirectStep(r)
    \/ \E r \in Runs : ModerationStep(r)

Spec == Init /\ [][Next]_vars

\* a step of the goroutine of run r, over feeds that all carry one link
RunStep(r) ==
    Publish(r) \/ CommonStep(r, {"a"}, BOOLEAN) \/ DirectStep(r) \/ ModerationStep(r)

NextFair ==
    \/ Tick
    \/ Dispatch(FocusTenants)
    \/ \E t \in FocusTenants : ManualTrigger(t)
    \/ Stop
    \/ Shutdown
    \/ \E c \in Tenants : Acquire(c)
    \/ \E r \in Runs : Publish(r)
    \/ \E r \in Runs : CommonStep(r, {"a"}, BOOLEAN)
    \/ \E r \in Runs : DirectStep(r)
    \/ \E r \in Runs : ModerationStep(r)

\* The fetch runs where every goroutine of a run keeps being scheduled and
\* every call it makes returns.
FairSpec == Init /\ [][NextFair]_vars /\ \A r \in Runs : WF_vars(RunStep(r))

\* The moderation workflow.  It starts where runs of chats with the approval
\* system enabled have left it: k articles went through
\* sendArticleToModeration, each stored with the next id and announced with
\* its buttons; (chat_id, link) is unique among the rows.
InitMod ==
    /\ isFetching = {}
    /\ cancelFunc = NoRun
    /\ run = [r \in Runs |-> IdleRun]
    /\ ctxDone = FALSE
    /\ posted = [t \in Tenants |-> [l \in StubLinks |-> 0]]
    /\ \E k \in 0..MaxPendingId :
         \E chatOf \in [1..k -> FocusTenants], linkOf \in [1..k -> Links] :
            /\ \A i, j \in 1..k :
                  (chatOf[i] = chatOf[j] /\ linkOf[i] = linkOf[j]) => i = j
            /\ pending = {PendingRow(i, chatOf[i], linkOf[i], AISummary) : i \in 1..k}
            /\ modMsgs = {ModMsg(i, AISummary, FALSE) : i \in 1..k}
            /\ nextId = k + 1
    /\ elapsed = [t \in Tenants |-> MaxElapsed]
    /\ sent = {}
    /\ spawned = {}
    /\ hnd = EmptyBag
    /\ userStates = [u \in Users |-> 0]
    /\ answered = None
    /\ call = NoCall
    /\ CacheInit

NextMod ==
    \/ \E id \in 1..MaxPendingId, u \in Users : handleCallbackQuery(id, u)
    \/ \E u \in Users : EditUpdate(u)
    \/ \E h \in Handlers : ApproveSend(h)
    \/ \E h \in Handlers : ApproveMark(h)
    \/ \E h \in Handlers : ApproveDelete(h)
    \/ \E h \in Handlers : RejectMark(h)
    \/ \E h \in Handlers : RejectDelete(h)
    \/ \E h \in Handlers : EditGet(h)
    \/ \E h \in Handlers : EditSend(h)

SpecMod == InitMod /\ [][NextMod]_vars

\* Two chats configured, launched by the dispatcher, their articles delivered
\* directly.
TwoTenants == {1, NumTenants}

NextTenants ==
    \/ Dispatch(TwoTenants)
    \/ \E c \in Tenants : Acquire(c)
    \/ \E r \in Runs : CommonStep(r, {"a"}, {FALSE})
    \/ \E r \in Runs : DirectStep(r)

SpecTenants == Init /\ [][NextTenants]_vars

\* scheduled runs of two chats that discover the same link; chat 1 has the
\* approval system on, the other chat delivers directly
NextShared ==
    \/ Dispatch(TwoTenants)
    \/ \E c \in Tenants : Acquire(c)
    \/ \E r \in Runs : CommonStep(r, {"a"}, {run[r].chat = 1})
    \/ \E r \in Runs : DirectStep(r)
    \/ \E r \in Runs : ModerationStep(r)

SpecShared == Init /\ [][NextShared]_vars

\* manual runs of two chats, started by /fetch_now and stopped by /fetch_stop
NextManual ==
    \/ \E c \in TwoTenants : ManualTrigger(c)
    \/ Stop
    \/ \E r \in Runs : Publish(r)
    \/ \E r \in Runs : CommonStep(r, {"a"}, {FALSE})
    \/ \E r \in Runs : DirectStep(r)

SpecManual == Init /\ [][NextManual]_vars

\* The scheduled runs of one chat over feeds whose items may carry no link.
NextStubs ==
    \/ Dispatch(FocusTenants)
    \/ \E c \in Tenants : Acquire(c)
    \/ \E r \in Runs : CommonStep(r, {NoLink, "a"}, BOOLEAN)
    \/ \E r \in Runs : DirectStep(r)
    \/ \E r \in Runs : ModerationStep(r)

SpecStubs == Init /\ [][NextStubs]_vars

\* handleCallbackQuery, the approve and reject buttons
DecisionCallback(id) ==
    /\ id \in ButtonIds
    /\ CanHandle
    /\ \/ handleApproveArticle(id)
       \/ handleRejectArticle(id)

\* The scheduled runs of one chat with the approval system enabled, and the
\* moderators' decisions on the articles they enqueue.
NextModerated ==
    \/ Dispatch(FocusTenants)
    \/ \E c \in Tenants : Acquire(c)
    \/ \E r \in Runs : CommonStep(r, Links, {TRUE})
    \/ \E r \in Runs : ModerationStep(r)
    \/ \E id \in 1..MaxPendingId : DecisionCallback(id)
    \/ \E h \in Handlers : ApproveSend(h)
    \/ \E h \in Handlers : ApproveMark(h)
    \/ \E h \in Handlers : ApproveDelete(h)
    \/ \E h \in Handlers : RejectMark(h)
    \/ \E h \in Handlers : RejectDelete(h)

SpecModerated == Init /\ [][NextModerated]_vars

\* Goroutines of several chats asking for their summarizer.
NextSummarizers ==
    \/ \E g \in Getters, cfg \in ChatCfgs : GetCall(g, cfg)
    \/ \E g \in Getters : GetRLock(g)
    \/ \E g \in Getters : GetRead(g)
    \/ \E g \in Getters : GetExists(g)
    \/ \E g \in Getters : GetLock(g)
    \/ \E g \in Getters : GetRecheck(g)
    \/ \E g \in Getters : GetConstruct(g)
    \/ \E g \in Getters : GetStore(g)

SpecSummarizers == Init /\ [][NextSummarizers]_vars

\* ------------------------------------------------------------ single calls
\* One call of a function of the pipeline, its arguments drawn from bounded
\* sets, looked at on its own: dispatchScheduledFetches, sendArticleToChannel,
\* fetchFromRSS, DiscoverArticles, and MarkAsPosted called twice on a table.
SeqsUpTo(S, n) == UNION {[1..k -> S] : k \in 0..n}

Captions == {AISummary} \cup EditTexts
Sources == [chat : Tenants, dest : {0} \cup Tenants, replyTo : 0..1]

\* the items of a feed: a link and a publish hour, or none
FeedItems == [link : Links, pub : {NoTime} \cup 0..(NowHour + 1)]
Feeds == {Fail} \cup {[err |-> FALSE, items |-> s] : s \in SeqsUpTo(FeedItems, MaxItems)}

\* what one source yields: an error, or its stubs
SourceOutcomes == {Fail} \cup {[err |-> FALSE, items |-> s] : s \in SeqsUpTo(Links, 2)}

DispatchCalls ==
    [fn : {"dispatch"}, done : {FALSE}, queryOk : BOOLEAN, bad : SUBSET Tenants,
     interval : [Tenants -> 1..MaxInterval], out : {{}}]
SendCalls ==
    [fn : {"send"}, done : {FALSE}, image : ImageURLs, caption : Captions,
     source : Sources, photoOk : BOOLEAN, textOk : BOOLEAN, out : {Fail}]
RSSCalls ==
    [fn : {"rss"}, done : {FALSE}, feed : Feeds, maxAgeHours : 0..MaxAgeHours,
     out : {Fail}]
DiscoverCalls ==
    [fn : {"discover"}, done : {FALSE},
     results : SeqsUpTo(SourceOutcomes, MaxSources) \ {<<>>}, out : {Fail}]

\* the tables posted_articles can be: PRIMARY KEY (link, chat_id) leaves at
\* most one row per pair
PostedTables == [Tenants -> [StubLinks -> 0..1]]

\* MarkAsPosted(link, chatID) called `times` times so far on the table
\* `before`, whose state after the first call was `once`
MarkCalls ==
    [fn : {"mark"}, done : {FALSE}, link : StubLinks, chatID : Tenants,
     times : {0}, before : PostedTables, once : {<<>>}, err : {FALSE}]

\* the pending_articles tables of up to MaxPendingId rows, ids 1..k, in
\* which no two rows share (chat_id, link)
PendingTables ==
    UNION {{{PendingRow(i, chatOf[i], linkOf[i], AISummary) : i \in 1..k} :
              <<chatOf, linkOf>> \in
                 {p \in [1..k -> Tenants] \X [1..k -> Links] :
                    \A i, j \in 1..k :
                       (p[1][i] = p[1][j] /\ p[2][i] = p[2][j]) => i = j}} :
           k \in 0..MaxPendingId}

\* sendArticleToModeration(article, summary, source, chatCfg) on the table
\* `before`; sendOk is whether the Telegram API accepts the message
ModerateCalls ==
    [fn : {"moderate"}, done : {FALSE}, chatID : Tenants, link : Links,
     before : PendingTables, sendOk : BOOLEAN, err : {FALSE}]

InitCalls ==
    /\ isFetching = {}
    /\ cancelFunc = NoRun
    /\ run = [r \in Runs |-> IdleRun]
    /\ ctxDone = FALSE
    /\ sent = {}
    /\ modMsgs = {}
    /\ spawned = {}
    /\ hnd = EmptyBag
    /\ userStates = [u \in Users |-> 0]
    /\ answered = None
    /\ call \in DispatchCalls \cup SendCalls \cup RSSCalls \cup DiscoverCalls
                 \cup MarkCalls \cup ModerateCalls
    /\ pending = IF call.fn = "moderate" THEN call.before ELSE {}
    /\ nextId = Cardinality(pending) + 1
    /\ posted = IF call.fn = "mark" THEN call.before
                ELSE [t \in Tenants |-> [l \in StubLinks |-> 0]]
    /\ elapsed \in IF call.fn = "dispatch" THEN [Tenants -> 0..MaxElapsed]
                    ELSE {[t \in Tenants |-> MaxElapsed]}
    /\ CacheInit

\* one tick of the dispatcher over all chats
DispatchCall ==
    /\ call.fn = "dispatch" /\ ~call.done
    /\ spawned' = spawned \cup Launch(Tenants, call.queryOk, call.bad, call.interval)
    /\ call' = [call EXCEPT !.done = TRUE,
                            !.out = Launch(Tenants, call.queryOk, call.bad,
                                           call.interval)]
    /\ UNCHANGED <<isFetching, cancelFunc, run, ctxDone, posted, pending,
                   nextId, elapsed, sent, modMsgs, hnd, userStates, answered, cacheVars>>

SendCall ==
    /\ call.fn = "send" /\ ~call.done
    /\ call' = [call EXCEPT !.done = TRUE,
                            !.out = SendArticleToChannel(call.image, call.caption,
                                       call.source, call.photoOk, call.textOk)]
    /\ UNCHANGED <<isFetching, cancelFunc, run, ctxDone, posted, pending,
                   nextId, elapsed, sent, modMsgs, spawned, hnd, userStates,
                   answered, cacheVars>>

RSSCall ==
    /\ call.fn = "rss" /\ ~call.done
    /\ call' = [call EXCEPT !.done = TRUE,
                            !.out = fetchFromRSS(call.feed, NowHour, call.maxAgeHours)]
    /\ UNCHANGED <<isFetching, cancelFunc, run, ctxDone, posted, pending,
                   nextId, elapsed, sent, modMsgs, spawned, hnd, userStates,
                   answered, cacheVars>>

\* DiscoverArticles returns the stubs and a nil error
DiscoverCall ==
    /\ call.fn = "discover" /\ ~call.done
    /\ call' = [call EXCEPT !.done = TRUE,
                            !.out = [err |-> FALSE,
                                     items |-> DiscoverArticles(call.results)]]
    /\ UNCHANGED <<isFetching, cancelFunc, run, ctxDone, posted, pending,
                   nextId, elapsed, sent, modMsgs, spawned, hnd, userStates,
                   answered, cacheVars>>

\* storage.go 548-552: one Exec of the INSERT OR IGNORE, which returns no
\* error when the row exists
MarkCall ==
    /\ call.fn = "mark" /\ ~call.done
    /\ posted' = MarkAsPosted(posted, call.link, call.chatID)
    /\ call' = [call EXCEPT !.times = @ + 1,
                            !.done = (call.times = 1),
                            !.once = IF call.times = 0 THEN posted' ELSE @,
                            !.err = FALSE]
    /\ UNCHANGED <<isFetching, cancelFunc, run, ctxDone, pending,
                   nextId, elapsed, sent, modMsgs, spawned, hnd, userStates,
                   answered, cacheVars>>

\* news.go 272-320: the row is inserted first; an insert error is returned
\* before any message is built, and a failed send is returned after it
ModerateCall ==
    /\ call.fn = "moderate" /\ ~call.done
    /\ LET added == AddPendingArticle(pending, nextId, call.chatID, call.link,
                                      AISummary)
       IN IF added.err
          THEN /\ call' = [call EXCEPT !.done = TRUE, !.err = TRUE]
               /\ UNCHANGED <<pending, nextId, modMsgs>>
          ELSE /\ pending' = added.rows
               /\ nextId' = nextId + 1
               /\ modMsgs' = IF call.sendOk
                             THEN modMsgs \cup {ModMsg(nextId, AISummary, FALSE)}
                             ELSE modMsgs
               /\ call' = [call EXCEPT !.done = TRUE, !.err = ~call.sendOk]
    /\ UNCHANGED <<isFetching, cancelFunc, run, ctxDone, posted, elapsed, sent,
                   spawned, hnd, userStates, answered, cacheVars>>

NextCalls ==
    \/ ModerateCall
    \/ DispatchCall
    \/ SendCall
    \/ RSSCall
    \/ DiscoverCall
    \/ MarkCall

SpecCalls == InitCalls /\ [][NextCalls]_vars

\* ------------------------------------------------------------ claims
Active(r) == run[r].pc # "idle"

\* the run has stepped into its deferred cleanup
Returns(r) == run[r].pc # "deferred" /\ run'[r].pc = "deferred"

\* C1: at every instant at most one fetch run is active per chat, and a
\* scheduled or manual trigger that reaches the guard while a run of its
\* chat is active starts nothing and writes nothing.
C1_OneRunPerChat ==
    [][/\ \A r1, r2 \in Runs :
            (run'[r1].pc # "idle" /\ run'[r2].pc # "idle"
               /\ run'[r1].chat = run'[r2].chat) => r1 = r2
       /\ \A c \in Tenants :
            ((\E r \in Runs : Active(r) /\ run[r].chat = c)
               /\ (Acquire(c) \/ ManualTrigger(c)))
            => UNCHANGED <<isFetching, cancelFunc, run, ctxDone, posted, pending,
                           nextId, elapsed, sent, modMsgs, hnd, userStates>>]_vars

\* a dispatched goroutine is about to reach the guard while a run of its chat
\* is in the middle of an article
C1_Witness ==
    \E r \in Runs : /\ run[r].pc = "summarize"
                    /\ run[r].chat \in spawned

\* the stub a run is working on has passed both admission checks
Admitted(r) ==
    run[r].pc \in {"scrape", "getSummarizer", "summarize", "send", "addPending",
                   "sendMod"}

C3_CancelledSummaryLeavesNoRow ==
    \A r \in Runs :
        run[r].sumCancel # None
        => /\ ~IsAlreadyPosted(run[r].sumCancel, run[r].chat)
           /\ ~IsArticlePending(run[r].sumCancel, run[r].chat)

\* a run whose summarization was cancelled is in its cleanup
C3_Witness ==
    \E r \in Runs : run[r].sumCancel # None /\ run[r].pc = "deferred"

OnlySummaryReplaced(id) ==
    /\ {row.id : row \in pending'} = {row.id : row \in pending}
    /\ \A old \in pending : \E new \in pending' :
          /\ new.id = old.id /\ new.chat = old.chat /\ new.link = old.link
          /\ old.id # id => new.summary = old.summary
    /\ Cardinality(pending') = Cardinality(pending)

\* an edit handler ends
EditEnds(h) == h.pc \in {"eGet", "eSend"} /\ hnd' = Ended(h)

C7_MissingIdAnswered ==
    [][\A id \in ButtonIds :
          (/\ \A row \in pending : row.id # id
           /\ (handleApproveArticle(id) \/ handleRejectArticle(id)
                 \/ \E u \in Users : handleEditArticle(id, u)))
          => /\ answered' = "processed"
             /\ UNCHANGED <<posted, pending, nextId, sent, modMsgs, hnd,
                            userStates>>]_vars

\* the button of a row that is gone was pressed and answered
C7_Witness ==
    /\ answered = "processed"
    /\ \E id \in ButtonIds : \A row \in pending : row.id # id

C10_ManualLeavesLastFetched ==
    [][\A r \in Runs :
          (run[r].manual /\ run'[r] # run[r]) => elapsed' = elapsed]_vars

\* a manual run has passed the line where a scheduled run stores the time
C10_Witness ==
    \E r \in Runs : /\ run[r].pc = "deferred" /\ run[r].manual
                    /\ run[r].exit \in {"noSources", "done"}
                    /\ elapsed[run[r].chat] > 0

\* C11: when a run ends, on whichever exit path, its cleanup clears the chat's
\* flag; the flag is set exactly for the chats that have a run; and a trigger
\* that reaches the guard with the flag clear starts a run of the chat.
C11_ExitClearsFlag ==
    [][/\ \A r \in Runs : Deferred(r) => run[r].chat \notin isFetching'
       /\ isFetching' = {run'[r].chat : r \in {q \in Runs : run'[q].pc # "idle"}}
       /\ \A c \in Tenants :
            (c \notin isFetching /\ (Acquire(c) \/ ManualTrigger(c)))
            => \E r \in Runs : /\ run[r].pc = "idle"
                               /\ run'[r].pc # "idle"
                               /\ run'[r].chat = c]_vars

\* a manual run holds the guard of a chat whose scheduled run has ended
C11_Witness ==
    \E r \in Runs : /\ Active(r) /\ run[r].manual
                    /\ run[r].pc = "checkpoint"
                    /\ elapsed[run[r].chat] = 0

\* C12 as stated: a tick that reads the configurations launches a chat exactly
\* when now >= last_fetched_at + interval, the instant
\* now = last_fetched_at + interval included.
C12_LaunchedIffDue ==
    (call.fn = "dispatch" /\ call.done /\ call.queryOk /\ call.bad = {})
    => \A c \in Tenants : c \in call.out <=> elapsed[c] >= call.interval[c]

\* C13 as stated: on a tick where the rows of some chats fail to load, every
\* other chat that is due is launched.
C13_LoadFailureSkipsOnlyThatChat ==
    (call.fn = "dispatch" /\ call.done /\ call.queryOk)
    => \A c \in Tenants \ call.bad :
          IsDue(c, call.interval[c]) => c \in call.out

\* the run is working on a stub: extracting, summarizing or sending it
Processing(r) ==
    run[r].pc \in {"checkPosted", "checkPending", "scrape", "getSummarizer",
                   "summarize", "send", "mark", "addPending", "sendMod"}

\* C14: the count of articles a run has delivered or enqueued never exceeds the
\* chat's post limit, and a run whose count has reached the limit works on no
\* further stub.
C14_PostCeiling ==
    \A r \in Runs :
        /\ run[r].postedCount <= run[r].limit
        /\ Processing(r) => run[r].postedCount < run[r].limit

\* limit 1: one article went out and the loop was left with an admissible
\* stub still in the list
C14_Witness ==
    \E r \in Runs :
        /\ run[r].pc = "updateLast"
        /\ run[r].limit = 1 /\ run[r].postedCount = 1
        /\ run[r].stubs # <<>>
        /\ ~IsAlreadyPosted(Head(run[r].stubs), run[r].chat)
        /\ ~IsArticlePending(Head(run[r].stubs), run[r].chat)

\* C15: a delivery on the non-approval path that fails creates no
\* posted_articles row and sends nothing, and the run goes on to the next
\* stub; a stub whose link is neither posted nor pending is admitted, so the
\* link is taken up again when it is met again.
C15_FailedDeliveryRetried ==
    [][\A r \in Runs :
          /\ (Send(r) /\ run'[r].pc # "mark")
             => /\ posted' = posted
                /\ posted'[run[r].chat][Head(run[r].stubs)] = 0
                /\ sent' = sent
                /\ run'[r].pc = "checkpoint"
                /\ run'[r].stubs = Tail(run[r].stubs)
          /\ (CheckPosted(r) /\ posted[run[r].chat][Head(run[r].stubs)] = 0)
             => run'[r].pc = "checkPending"
          /\ (CheckPending(r)
                /\ \A row \in pending :
                      ~(row.chat = run[r].chat /\ row.link = Head(run[r].stubs)))
             => run'[r].pc = "scrape"]_vars

\* the link whose delivery failed has been admitted again and is about to be
\* delivered
C15_Witness ==
    \E r \in Runs : /\ run[r].pc = "send"
                    /\ run[r].sendFail = Head(run[r].stubs)
                    /\ posted[run[r].chat][Head(run[r].stubs)] = 0

C17_TextFallback ==
    (call.fn = "send" /\ call.done /\ call.image # NoImage /\ ~call.photoOk)
    => /\ Len(call.out.attempts) = 2
       /\ call.out.attempts[1].kind = "photo"
       /\ call.out.attempts[2] = [call.out.attempts[1] EXCEPT !.kind = "text"]
       /\ call.out.attempts[1].caption = call.caption
       /\ call.out.attempts[1].replyTo = call.source.replyTo
       /\ call.out.attempts[1].chat \in {call.source.dest, call.source.chat}
       /\ call.out.attempts[1].chat # 0
       /\ call.out.ok = call.textOk

\* a photo to a topic's destination failed and the text that followed was sent
C17_Witness ==
    /\ call.fn = "send" /\ call.done
    /\ call.image # NoImage /\ ~call.photoOk /\ call.textOk
    /\ call.source.dest # 0 /\ call.source.dest # call.source.chat
    /\ call.source.replyTo # 0
    /\ call.out.ok

\* the items of a feed that carry a publish hour no older than maxAge hours
Fresh(items, maxAge) ==
    SelectSeq(items, LAMBDA it : it.pub # NoTime /\ NowHour - it.pub <= maxAge)

\* C19: a feed that parses yields, in feed order, one stub for each item that
\* carries a publish time no older than maxAgeHours before now, and none for
\* the others.
C19_FeedAgeFilter ==
    (call.fn = "rss" /\ call.done /\ ~call.feed.err)
    => /\ ~call.out.err
       /\ call.out.items = Fresh(call.feed.items, call.maxAgeHours)

\* three dated items, one of them too old: two stubs
C19_Witness ==
    /\ call.fn = "rss" /\ call.done /\ ~call.feed.err
    /\ Len(call.feed.items) = 3
    /\ \A i \in 1..3 : call.feed.items[i].pub # NoTime
    /\ Cardinality({i \in 1..3 :
                       NowHour - call.feed.items[i].pub > call.maxAgeHours}) = 1
    /\ Len(call.out.items) = 2

\* the number of stubs of the sources before the i-th that did not fail
RECURSIVE StubsBefore(_, _)
StubsBefore(results, i) ==
    IF i <= 1 THEN 0
    ELSE StubsBefore(results, i - 1)
         + (IF results[i - 1].err THEN 0 ELSE Len(results[i - 1].items))

\* C20: discovery returns no error, and its list is made of the stubs of the
\* sources that did not fail, in source order and within a source in item
\* order; a failing source contributes nothing.
C20_FailingSourceSkipped ==
    (call.fn = "discover" /\ call.done)
    => /\ ~call.out.err
       /\ Len(call.out.items) = StubsBefore(call.results, Len(call.results) + 1)
       /\ \A i \in 1..Len(call.results) :
             ~call.results[i].err
             => \A j \in 1..Len(call.results[i].items) :
                   call.out.items[StubsBefore(call.results, i) + j]
                     = call.results[i].items[j]

\* the first source failed and the stubs of the second came back
C20_Witness ==
    /\ call.fn = "discover" /\ call.done
    /\ Len(call.results) = 2
    /\ call.results[1].err /\ ~call.results[2].err
    /\ Len(call.results[2].items) = 2
    /\ call.out.items = call.results[2].items

\* the runs of other chats that are active beside a run of chat c
OtherActive(c) == {q \in Runs : Active(q) /\ run[q].chat # c}

\* C18: a trigger reaching the guard for a chat that has no run starts that
\* chat's run although another chat's run is active; every active run can
\* take its next step whatever the other chats' runs are doing; and a step of
\* one run, its failure included, changes neither another chat's run nor
\* another chat's flag.
C18_TenantsIndependent ==
    /\ [](\A r \in Runs :
            Active(r) => ENABLED (CommonStep(r, {"a"}, {FALSE}) \/ DirectStep(r)))
    /\ [][/\ \A c \in Tenants :
               (c \in spawned /\ c \notin spawned' /\ c \notin isFetching
                  /\ OtherActive(c) # {})
               => /\ c \in isFetching'
                  /\ \E r \in Runs : run[r].pc = "idle" /\ run'[r].pc = "loadCfg"
                                       /\ run'[r].chat = c
           /\ \A r \in Runs :
               (Active(r) /\ run'[r] # run[r])
               => \A q \in OtherActive(run[r].chat) :
                     /\ run'[q] = run[q]
                     /\ run[q].chat \in isFetching']_vars

\* one chat's run is summarizing an article while the other chat's run, begun
\* beside it, has failed to load its sources and is about to exit
C18_Witness ==
    \E r, q \in Runs :
        /\ run[r].chat # run[q].chat
        /\ run[r].pc = "summarize"
        /\ run[q].pc = "deferred" /\ run[q].exit = "srcErr"
        /\ {run[r].chat, run[q].chat} \subseteq isFetching

\* the instances built for the (model, prompt) pair of cfg
BuiltFor(cfg) == {i \in built : i.model = cfg.model /\ i.prompt = cfg.prompt}

\* C21: for one (model, prompt) pair at most one instance is ever built, the
\* stored instances are built ones, every call for the pair that returns
\* without error returns the instance stored under the pair's key, the same
\* for every caller, and a construction that fails changes neither the cache
\* nor the instances built and returns no instance.
C21_OneSummarizerPerPair ==
    /\ [](/\ \A cfg \in ChatCfgs : Cardinality(BuiltFor(cfg)) <= 1
          /\ \A k \in ConfigKeys :
                summarizers[k] # NoSummarizer
                => \E i \in built : i.id = summarizers[k] /\ ConfigKey(i) = k
          /\ \A g \in Getters :
                (getters[g].pc = "returned" /\ ~getters[g].err)
                => /\ getters[g].got # NoSummarizer
                   /\ getters[g].got = summarizers[ConfigKey(getters[g].cfg)]
          /\ \A g, h \in Getters :
                (getters[g].pc = "returned" /\ getters[h].pc = "returned"
                   /\ ~getters[g].err /\ ~getters[h].err
                   /\ getters[g].cfg = getters[h].cfg)
                => getters[g].got = getters[h].got)
    /\ [][\A g \in Getters :
            (getters[g].pc = "construct" /\ getters'[g].pc = "returned")
            => /\ getters'[g].err /\ getters'[g].got = NoSummarizer
               /\ UNCHANGED <<summarizers, built>>]_vars

\* two callers of one pair both missed under the read lock; one built and
\* stored the instance, the other found it at its second look, and both hold
\* the only instance built
C21_Witness ==
    \E g, h \in Getters :
        /\ g # h
        /\ getters[g].pc = "returned" /\ getters[h].pc = "returned"
        /\ getters[g].cfg = getters[h].cfg
        /\ ~getters[g].err /\ ~getters[h].err
        /\ getters[g].got = getters[h].got
        /\ built = {Instance(getters[g].got, getters[g].cfg)}
        /\ summarizerMutex = Unlocked

\* C22: whenever a manual run is active, the published cancel function is
\* that run's own, so that a stop action at that moment cancels it.
C22_HandlePublishedWithFlag ==
    \A r \in Runs : (Active(r) /\ run[r].manual) => cancelFunc = r

\* the places of a run where its current stub is being extracted, summarized,
\* delivered, enqueued or recorded
Handled == {"scrape", "getSummarizer", "summarize", "send", "mark",
            "addPending", "sendMod", "delay"}

\* C23: a stub with an empty link is skipped by admission: no run is ever
\* extracting or processing it, and no posted row, pending row, delivery or
\* moderation request exists for the empty link.
C23_EmptyLinkSkipped ==
    /\ \A r \in Runs :
          (run[r].pc \in Handled) => Head(run[r].stubs) # NoLink
    /\ \A c \in Tenants : ~IsAlreadyPosted(NoLink, c) /\ ~IsArticlePending(NoLink, c)
    /\ \A d \in sent : d.link # NoLink

Covered(link, chatID) == IsArticlePending(link, chatID) \/ IsAlreadyPosted(link, chatID)

\* C25: a link that is pending or posted for a chat stays pending or posted
\* through every step of the approve and reject handlers, and no run
\* interleaved with them admits, and starts extracting, a link that is
\* pending or posted for its chat.
C25_NoReadmissionWhileModerated ==
    /\ [][\A c \in Tenants, l \in Links :
            (IsArticlePending(l, c) \/ IsAlreadyPosted(l, c))
            => \/ \E row \in pending' : row.chat = c /\ row.link = l
               \/ posted'[c][l] > 0]_vars
    /\ [](\A r \in Runs :
            run[r].pc = "scrape" => ~Covered(Head(run[r].stubs), run[r].chat))

\* what a run leaves behind: the tables, the deliveries, the moderation
\* requests and the chats' last_fetched_at
effects == <<posted, pending, nextId, sent, modMsgs, elapsed>>

\* C26: a run that is cancelled when it reaches the checkpoint before a stub,
\* or while it is in the delay after an article, returns with that step,
\* which changes no table, delivery or last_fetched_at; once it has returned
\* its only step is the cleanup, which processes nothing; and a cancelled run
\* in the delay can always take that step at once.
C26_CancelEndsRun ==
    /\ [][\A r \in Runs :
            /\ (Done(r) /\ run'[r].pc # run[r].pc
                  /\ \/ run[r].pc = "checkpoint" /\ run[r].stubs # <<>>
                     \/ run[r].pc = "delay")
               => /\ run'[r] = Return(r, "cancelled")
                  /\ UNCHANGED effects
            /\ (run[r].pc = "deferred" /\ run'[r].pc # "deferred")
               => /\ run'[r] = Cleaned(r)
                  /\ UNCHANGED effects]_vars
    /\ [](\A r \in Runs : (run[r].pc = "delay" /\ Done(r)) => ENABLED Delay(r))

\* a manual run stopped during the delay after its first delivery: it has
\* returned with the second stub, unposted, still in its list
C26_Witness ==
    \E r \in Runs :
        /\ run[r].pc = "deferred" /\ run[r].exit = "cancelled"
        /\ run[r].manual /\ run[r].cancelled
        /\ run[r].postedCount = 1 /\ run[r].limit = 2
        /\ Len(run[r].stubs) = 2
        /\ run[r].stubs[1] # run[r].stubs[2]
        /\ IsAlreadyPosted(run[r].stubs[1], run[r].chat)
        /\ ~Covered(run[r].stubs[2], run[r].chat)

\* C27: once a summarization of a run has failed by cancellation, the run is
\* only ever at the loop head or past the loop, never again admitting,
\* extracting, summarizing, delivering or enqueueing a stub, and none of its
\* steps changes a table, a delivery or a moderation request.
C27_CancelledSummaryEndsRun ==
    /\ [](\A r \in Runs :
            run[r].sumCancel # None
            => run[r].pc \in {"checkpoint", "updateLast", "deferred"})
    /\ [][\A r \in Runs :
            (run[r].sumCancel # None /\ run'[r] # run[r])
            => UNCHANGED <<posted, pending, nextId, sent, modMsgs>>]_vars

\* the summarization of the first stub was cancelled and the run has returned
\* with the second stub, never looked at, left in its list
C27_Witness ==
    \E r \in Runs :
        /\ run[r].sumCancel \in Links
        /\ run[r].pc = "deferred" /\ run[r].exit = "cancelled"
        /\ Len(run[r].stubs) = 1
        /\ Head(run[r].stubs) # run[r].sumCancel
        /\ ~Covered(Head(run[r].stubs), run[r].chat)
        /\ ~Covered(run[r].sumCancel, run[r].chat)

\* C28: when no summarizer can be obtained, or a summarization fails while the
\* run is not cancelled, the step creates no posted or pending row, sends
\* nothing, and the run goes on to the next stub; a stub whose link is neither
\* posted nor pending is admitted, so the link is taken up again when it is
\* met again.
C28_FailedSummaryRetried ==
    [][\A r \in Runs :
          /\ (\/ GetSummarizer(r) /\ run'[r].pc # "summarize"
              \/ Summarize(r) /\ ~Done(r) /\ run'[r].pc = "checkpoint")
             => /\ UNCHANGED <<posted, pending, nextId, sent, modMsgs>>
                /\ ~Covered(Head(run[r].stubs), run[r].chat)
                /\ run'[r].pc = "checkpoint"
                /\ run'[r].stubs = Tail(run[r].stubs)
          /\ (CheckPosted(r) /\ ~IsAlreadyPosted(Head(run[r].stubs), run[r].chat))
             => run'[r].pc = "checkPending"
          /\ (CheckPending(r)
                /\ ~IsArticlePending(Head(run[r].stubs), run[r].chat))
             => run'[r].pc = "scrape"]_vars

\* the link whose summarization failed has been admitted again and is about
\* to be summarized
C28_Witness ==
    \E r \in Runs : /\ run[r].pc = "summarize"
                    /\ run[r].sumFail = Head(run[r].stubs)
                    /\ ~Covered(Head(run[r].stubs), run[r].chat)

\* the places of a run inside the loop over the discovered list
InLoop == Handled \cup {"checkpoint", "checkPosted", "checkPending"}

\* C29: every run that has begun ends; inside the loop the list only loses
\* its first stub, and loses it whenever the run comes back to the loop head;
\* the loop is left only with the list exhausted, the post ceiling reached, or
\* the context done.
C29_RunTerminates ==
    /\ \A r \in Runs : (run[r].pc # "idle") ~> (run[r].pc = "idle")
    /\ [][\A r \in Runs :
            /\ (run[r].pc \in InLoop /\ run'[r].pc \in InLoop)
               => run'[r].stubs = IF run[r].pc # "checkpoint"
                                     /\ run'[r].pc = "checkpoint"
                                  THEN Tail(run[r].stubs) ELSE run[r].stubs
            /\ (run[r].pc \in InLoop /\ run'[r].pc = "updateLast")
               => /\ run[r].pc = "checkpoint"
                  /\ run[r].stubs = <<>> \/ run[r].postedCount >= run[r].limit
            /\ (run[r].pc \in InLoop /\ run'[r].pc = "deferred")
               => /\ Done(r)
                  /\ run[r].pc \in {"checkpoint", "delay"}]_vars

\* a run has gone through a list of two stubs and left the loop with the list
\* exhausted
C29_Witness ==
    \E r \in Runs :
        /\ run[r].pc = "updateLast"
        /\ run[r].stubs = <<>>
        /\ run[r].postedCount = 1 /\ run[r].limit = 2
        /\ run[r].sendFail # None

\* C30: after MarkAsPosted(link, chat) the pair has exactly one row and every
\* other pair, the same link for another chat included, has the rows it had;
\* when the pair had its row the table is unchanged and no error is returned;
\* and the table after the second call is the table after the first.
C30_MarkIdempotent ==
    (call.fn = "mark" /\ call.times >= 1)
    => /\ posted[call.chatID][call.link] = 1
       /\ \A c \in Tenants, l \in StubLinks :
             (c # call.chatID \/ l # call.link) => posted[c][l] = call.before[c][l]
       /\ call.before[call.chatID][call.link] = 1
          => (posted = call.before /\ ~call.err)
       /\ posted = call.once
       /\ ~call.err

\* a pair marked twice while another chat holds the same link: the second
\* call changed nothing
C30_Witness ==
    /\ call.fn = "mark" /\ call.times = 2
    /\ call.before[call.chatID][call.link] = 0
    /\ \E c \in Tenants : /\ c # call.chatID
                          /\ call.before[c][call.link] = 1
                          /\ posted[c][call.link] = 1
    /\ posted = call.once


\* C31: no two rows of pending_articles share (chat_id, link); a call of
\* sendArticleToModeration for a chat and link that already have a row
\* returns an error, leaves the table as it was and sends no moderation
\* message.
C31_PendingUnique ==
    /\ \A r1, r2 \in pending :
          (r1.chat = r2.chat /\ r1.link = r2.link) => r1 = r2
    /\ (call.fn = "moderate" /\ call.done
          /\ \E row \in call.before :
                row.chat = call.chatID /\ row.link = call.link)
       => (call.err /\ pending = call.before /\ modMsgs = {})

C31_Witness ==
    /\ call.fn = "moderate" /\ call.done /\ call.err /\ call.sendOk
    /\ \E row \in call.before :
          row.chat = call.chatID /\ row.link = call.link
    /\ Cardinality(call.before) = 2


\* the delivery of an approval failing: the handler returns at once
ApproveFails(h) == ApproveSend(h) /\ hnd' = Ended(h)

\* C32: an approval whose delivery fails, photo and text fallback alike,
\* returns leaving posted_articles, pending_articles and the deliveries as
\* they were; an approval writes only after its delivery succeeded (one whose
\* configuration did not load never started a write); and only the write
\* steps of an approval or rejection change posted_articles or remove a
\* pending row. So the row of a failed approval is still there for a retry.
C32_FailedApprovalKeepsRow ==
    /\ [](\A h \in Handlers :
            h.pc \in {"aMark", "aDelete"}
            => Delivery(h.chat, h.link, "approve") \in sent)
    /\ [][\A h \in Handlers :
            ApproveFails(h) => UNCHANGED <<posted, pending, sent>>]_vars
    /\ [][(posted' # posted \/ {row.id : row \in pending'} # {row.id : row \in pending})
          => \E h \in Handlers :
                ApproveMark(h) \/ ApproveDelete(h) \/ RejectMark(h) \/ RejectDelete(h)]_vars

\* an approval of an existing, undelivered row is about to fail its delivery
C32_Witness ==
    \E h \in Handlers :
        /\ h.pc = "aSend"
        /\ HasPending(h.id)
        /\ GetPendingArticle(h.id).link = h.link
        /\ posted[h.chat][h.link] = 0
        /\ sent = {}
        /\ ENABLED ApproveFails(h)


\* the edit handlers whose UPDATE found no row: the id had been decided
LateEdits == {h \in Handlers : h.pc \in {"eGet", "eSend"} /\ ~h.hit}

\* C33: an edit text submitted for an id whose row has been deleted by an
\* approval or rejection updates nothing: that step and every later step of
\* its handler leave pending_articles, posted_articles and the moderation
\* messages as they were, the id has no row while the handler runs, and the
\* handler never reaches the regenerated message.
C33_DecidedIsAbsorbing ==
    /\ [][\A u \in Users :
            (EditUpdate(u) /\ ~HasPending(userStates[u]))
            => /\ UNCHANGED <<posted, pending, modMsgs, sent>>
               /\ hnd' # hnd => \E g \in BagToSet(hnd') :
                                    g.id = userStates[u] /\ g.pc = "eGet" /\ ~g.hit]_vars
    /\ [](\A h \in LateEdits : h.pc = "eGet" /\ ~HasPending(h.id))
    /\ [][\A h \in LateEdits :
            (EditGet(h) \/ EditSend(h))
            => (UNCHANGED <<posted, pending, modMsgs, sent>> /\ hnd' = Ended(h))]_vars

\* an edit submitted after the approval of its article has been delivered,
\* recorded and its row deleted, while another article is still pending
C33_Witness ==
    \E h \in LateEdits, d \in sent :
        /\ d.via = "approve"
        /\ posted[d.chat][d.link] = 1
        /\ ~IsArticlePending(d.link, d.chat)
        /\ h.id \in ButtonIds
        /\ pending # {}
        /\ \A m \in modMsgs : ~m.edited


\* the rows of chat c in pending_articles
PendingOf(rows, c) == {row \in rows : row.chat = c}

\* C34: a step of a run of chat T leaves every other chat's posted_articles
\* rows, pending_articles rows and last_fetched_at as they were, and the
\* pending rows it adds belong to T; this holds when the other chat has
\* discovered the same link. A step of no run changes none of them.
C34_RunWritesOwnTenantOnly ==
    [][/\ \A r \in Runs :
            (Active(r) /\ run'[r] # run[r])
            => /\ \A c \in Tenants \ {run[r].chat} :
                     /\ posted'[c] = posted[c]
                     /\ elapsed'[c] = elapsed[c]
                     /\ PendingOf(pending', c) = PendingOf(pending, c)
               /\ \A row \in pending' \ pending : row.chat = run[r].chat
       /\ (\A r \in Runs : Active(r) => run'[r] = run[r])
          => UNCHANGED <<posted, pending, elapsed>>]_vars

\* both chats met the same link: one has posted it, stored its time and has
\* no run left; the other has put it into moderation and not stored its
\* time yet
C34_Witness ==
    \E r \in Runs, c \in Tenants, l \in Links :
        /\ c # run[r].chat
        /\ Active(r) /\ run[r].approval
        /\ posted[c][l] = 1 /\ elapsed[c] = 0 /\ c \notin isFetching
        /\ posted[run[r].chat][l] = 0 /\ elapsed[run[r].chat] # 0
        /\ IsArticlePending(l, run[r].chat)
        /\ ~IsArticlePending(l, c)


\* C35: a call that returns without error returns an instance that was
\* constructed from the model and the prompt of the configuration it was
\* called with, and calls with different (model, prompt) pairs return
\* different instances.
C35_SummarizerOfOwnPair ==
    /\ \A g \in Getters :
          (getters[g].pc = "returned" /\ ~getters[g].err)
          => \E i \in built : /\ i.id = getters[g].got
                               /\ i.model = getters[g].cfg.model
                               /\ i.prompt = getters[g].cfg.prompt
    /\ \A g, h \in Getters :
          (getters[g].pc = "returned" /\ getters[h].pc = "returned"
             /\ ~getters[g].err /\ ~getters[h].err
             /\ getters[g].cfg # getters[h].cfg)
          => getters[g].got # getters[h].got


\* a manual run that has published its cancel function and has not returned
Cancellable(r) ==
    Active(r) /\ run[r].manual /\ run[r].pc \notin {"publish", "deferred"}

\* C36: every manual run that has published its cancel function and has not
\* returned is the run a stop would cancel, whatever other chats' manual
\* runs are active; and no step of another run, its publication and its
\* cleanup included, takes a run's published cancel function away.
C36_HandlesIndependent ==
    /\ [](\A r \in Runs : Cancellable(r) => cancelFunc = r)
    /\ [][\A r \in Runs :
            (Cancellable(r) /\ cancelFunc = r /\ run'[r] = run[r])
            => cancelFunc' = r]_vars


\* the delivery of an approval succeeding
ApproveDelivers(h) == ApproveSend(h) /\ hnd' # Ended(h)

\* the article of handler h was rejected: its rejection wrote the posted row
\* and deleted the pending row, and no approval had delivered it
RejectHandled(h) ==
    /\ ~HasPending(h.id)
    /\ posted[h.chat][h.link] = 1
    /\ Delivery(h.chat, h.link, "approve") \notin sent

\* C37: whatever the interleaving of the handlers of one pending id, an
\* approval delivers the article only if no approval has delivered it
\* before, and never after its rejection was handled.
C37_OneDeliveryPerId ==
    /\ [][\A h \in Handlers :
            ApproveDelivers(h) => Delivery(h.chat, h.link, "approve") \notin sent]_vars
    /\ [][\A h \in Handlers : ApproveDelivers(h) => ~RejectHandled(h)]_vars


\* the rows whose moderation message is not being sent right now
Enqueued == {row \in pending : \A r \in Runs :
                 ~(run[r].pc = "sendMod" /\ run[r].pid = row.id)}

\* the send of the moderation message failing
SendModFails(r) == SendMod(r) /\ modMsgs' = modMsgs

\* C38: every pending row whose enqueueing has ended has a moderation
\* message with its id, and a failed send of the moderation message leaves
\* the link neither posted nor pending for the chat, so that admission will
\* take it again.
C38_FailedModerationStaysEligible ==
    /\ [](\A row \in Enqueued : \E m \in modMsgs : m.id = row.id)
    /\ [][\A r \in Runs :
            SendModFails(r)
            => /\ posted'[run[r].chat][Head(run[r].stubs)] = 0
               /\ \A row \in pending' :
                     ~(row.chat = run[r].chat /\ row.link = Head(run[r].stubs))]_vars


\* C39: the cleanup of a manual run on whose context no stop was called
\* before the run ended sends "fetch_now_completed", whether the run ended
\* with its list, at the ceiling, without sources or on a load error; it
\* sends "fetch_stop_success" only if a stop had cancelled the context.
C39_CompletedUnlessStopped ==
    [][\A r \in Runs :
          (Deferred(r) /\ run[r].manual)
          => run'[r].notice = IF run[r].cancelled THEN "fetch_stop_success"
                              ELSE "fetch_now_completed"]_vars

====
